---- MODULE Spec2Model ----
(***************************************************************************)
(* bevy_actify: per-kind input action pipeline.                            *)
(*   InputActionDrain  --pour-->  Option<A>                                *)
(*   update_input_action_state  (resolve): State := drain.take()           *)
(*   write_input_action_events  (track)  : diff Local<Option<A>> / State   *)
(*   InputActionReader : cursor over the double-buffered event queue       *)
(***************************************************************************)
EXTENDS Integers, Sequences, FiniteSets, TLC

\* ---------------------------------------------------------------- bounds
NumValues == 2          \* distinct action values 1..NumValues
MaxTicks  == 3          \* frames the schedule is run for
MaxLog == 3             \* events kept per kind when the systems run at will

Values  == 1..NumValues
Kinds   == {"K1", "K2"}
Readers == {"X", "Y"}

\* ------------------------------------------------------------ data types
\* Option<A>
None    == <<>>
Some(v) == <<v>>

\* internal::InputActionState<A>
Idle      == <<"Idle">>
Active(v) == <<"Active", v>>

\* internal::InputActionUpdated<A> / InputActionStatus<A>
Started(v) == <<"Started", v>>
Updated(v) == <<"Updated", v>>
Stopped    == <<"Stopped">>

\* the double-buffered queue behind EventReader/EventWriter
EmptyEvents ==
    [events_a    |-> [start_event_count |-> 0, events |-> <<>>],
     events_b    |-> [start_event_count |-> 0, events |-> <<>>],
     event_count |-> 0]

NoOp == [op |-> "init", kind |-> "-", reader |-> "-",
         ret |-> <<>>, taken |-> 0, flag |-> FALSE]

VARIABLES
    registered,   \* kinds add_input_action was called for
    attached,     \* readers some system of the app takes as a parameter
    tick,         \* frames started so far
    pc,           \* per kind: next system of the chained pair to run
    drain,        \* internal::InputActionDrain<A>
    state,        \* internal::InputActionState<A>
    local,        \* Local<Option<A>> of write_input_action_events
    events,       \* Events<InputActionUpdated<A>>
    cursor,       \* per reader: last_event_count of its EventReader
    lastPour,     \* history: the last pour since the last resolve
    replaced,     \* history: that pour replaced a pour of another value
    prevResolved, \* history: State at the end of the previous tick
    log,          \* history: every event ever sent, with its tick
    everPoured,   \* history: some pour has happened for the kind
    resolvedAt,   \* history: tick of the kind's last resolve
    trackedAt,    \* history: tick of the kind's last track
    lastOp        \* history: the operation that produced this state

vars == <<registered, attached, tick, pc, drain, state, local, events, cursor,
          lastPour, replaced, prevResolved, log, everPoured, resolvedAt,
          trackedAt, lastOp>>

\* ------------------------------------------------------ pure functions
\* InputActionState::state : Active(v) -> Some(v), Idle -> None
AsOption(s) == IF s[1] = "Active" THEN Some(s[2]) ELSE None

\* InputActionState::is_active
IsActive(s) == s[1] = "Active"

\* variant: get_or_insert in place of replace
ReplaceKeepsFirst(d, v) == IF d = None THEN Some(v) ELSE d

\* Option::replace on the drain: the pending value after pour(v)
Replace(d, v) == Some(v)

\* variant: clone in place of take
TakeLeavesValue(d) == d

\* Option::take on the drain: what is left pending
Take(d) == None

\* drain.take().map_or(Idle, Active)
ResolveState(d) == IF d = None THEN Idle ELSE Active(d[1])

\* variants of the match below, each with one arm changed
TransitionStartAsUpdate(previous, next) ==
    IF previous = None /\ next = None THEN <<>>
    ELSE IF previous = None THEN <<Updated(next[1])>>
    ELSE IF next = None THEN <<Stopped>>
    ELSE IF previous[1] # next[1] THEN <<Updated(next[1])>>
    ELSE <<>>

TransitionNoStop(previous, next) ==
    IF previous = None /\ next = None THEN <<>>
    ELSE IF previous = None THEN <<Started(next[1])>>
    ELSE IF next = None THEN <<>>
    ELSE IF previous[1] # next[1] THEN <<Updated(next[1])>>
    ELSE <<>>

TransitionOldValue(previous, next) ==
    IF previous = None /\ next = None THEN <<>>
    ELSE IF previous = None THEN <<Started(next[1])>>
    ELSE IF next = None THEN <<Stopped>>
    ELSE IF previous[1] # next[1] THEN <<Updated(previous[1])>>
    ELSE <<>>

TransitionIdleStops(previous, next) ==
    IF next = None THEN <<Stopped>>
    ELSE IF previous = None THEN <<Started(next[1])>>
    ELSE IF previous[1] # next[1] THEN <<Updated(next[1])>>
    ELSE <<>>

\* variant: a change of the value of an Active State sends nothing
TransitionNoUpdate(previous, next) ==
    IF previous = None /\ next = None THEN <<>>
    ELSE IF previous = None THEN <<Started(next[1])>>
    ELSE IF next = None THEN <<Stopped>>
    ELSE <<>>

\* variant: an Active State sends Updated every tick, changed or not
TransitionRepeats(previous, next) ==
    IF previous = None /\ next = None THEN <<>>
    ELSE IF previous = None THEN <<Started(next[1])>>
    ELSE IF next = None THEN <<Stopped>>
    ELSE <<Updated(next[1])>>

TransitionStopStart(previous, next) ==
    IF previous = None /\ next = None THEN <<>>
    ELSE IF previous = None THEN <<Started(next[1])>>
    ELSE IF next = None THEN <<Stopped>>
    ELSE IF previous[1] # next[1] THEN <<Stopped, Started(next[1])>>
    ELSE <<>>

\* the match of write_input_action_events: events sent for (local, state)
Transition(previous, next) ==
    IF previous = None /\ next = None THEN <<>>
    ELSE IF previous = None THEN <<Started(next[1])>>
    ELSE IF next = None THEN <<Stopped>>
    ELSE IF previous[1] # next[1] THEN <<Updated(next[1])>>
    ELSE <<>>

\* variant: the previous value is overwritten only by an Active State
NextLocalOnlyActive(previous, next) == IF next = None THEN previous ELSE next

\* *local = state.cloned()
NextLocal(previous, next) == next

\* slice.get(i..).unwrap_or_default() with a 0-based index
GetFrom(s, i) == IF i > Len(s) THEN <<>> ELSE SubSeq(s, i + 1, Len(s))

\* usize::saturating_sub
SatSub(a, b) == IF a > b THEN a - b ELSE 0

Min(a, b) == IF a < b THEN a ELSE b

\* variant: only the write buffer is read
UnreadNewestOnly(q, c) ==
    GetFrom(q.events_b.events, SatSub(c, q.events_b.start_event_count))

\* variant: the write buffer is read before the older one
UnreadNewestFirst(q, c) ==
    GetFrom(q.events_b.events, SatSub(c, q.events_b.start_event_count))
    \o GetFrom(q.events_a.events, SatSub(c, q.events_a.start_event_count))

\* EventReader::read : the events the returned iterator yields
Unread(q, c) ==
    GetFrom(q.events_a.events, SatSub(c, q.events_a.start_event_count))
    \o GetFrom(q.events_b.events, SatSub(c, q.events_b.start_event_count))

\* variant: creating the iterator already moves the cursor to the end
CursorEager(q, unread, n) == q.event_count

\* the cursor after a read whose iterator had `unread` items and gave n
CursorAfter(q, unread, n) == q.event_count - unread + n

\* variant: the older buffer is not counted
ReaderLenNewestOnly(q, c) ==
    Min(SatSub(q.event_count, c), Len(q.events_b.events))

\* EventReader::len
ReaderLen(q, c) ==
    Min(SatSub(q.event_count, c),
        Len(q.events_a.events) + Len(q.events_b.events))

\* Events::send
Send(q, evs) ==
    [q EXCEPT !.events_b.events = @ \o evs,
              !.event_count = @ + Len(evs)]

\* variant: a single buffer, emptied at every update
UpdateDropsAll(q) ==
    [q EXCEPT !.events_a = [start_event_count |-> q.event_count,
                            events |-> <<>>],
              !.events_b = [start_event_count |-> q.event_count,
                            events |-> <<>>]]

\* Events::update : swap the buffers, clear the new write buffer
Update(q) ==
    [q EXCEPT !.events_a = q.events_b,
              !.events_b = [start_event_count |-> q.event_count,
                            events |-> <<>>]]

\* EventReader::clear : the cursor at the write position
ClearTo(q) == q.event_count

\* the names of the condition helpers and the status each looks for
Conditions ==
    [input_action_started |-> "Started",
     input_action_updated |-> "Updated",
     input_action_stopped |-> "Stopped"]

\* variant: only the first status of the iterator is looked at
FirstMatchHeadOnly(items, tag) ==
    IF items # <<>> /\ items[1][1] = tag THEN 1 ELSE 0

\* Iterator::any : position of the first status with the tag, 0 if none
FirstMatch(items, tag) ==
    LET hits == {i \in 1..Len(items) : items[i][1] = tag}
    IN IF hits = {} THEN 0
       ELSE CHOOSE i \in hits : \A j \in hits : i <= j

Op(o, k, r) == [NoOp EXCEPT !.op = o, !.kind = k, !.reader = r]

\* ---------------------------------------------------------------- Init
InitFor(ks, rs) ==
    /\ registered = ks
    /\ attached = rs
    /\ tick = 0
    /\ pc = [k \in Kinds |-> "done"]
    /\ drain = [k \in Kinds |-> None]
    /\ state = [k \in Kinds |-> Idle]
    /\ local = [k \in Kinds |-> None]
    /\ events = [k \in Kinds |-> EmptyEvents]
    /\ cursor = [k \in Kinds |-> [r \in Readers |-> 0]]
    /\ lastPour = [k \in Kinds |-> None]
    /\ replaced = [k \in Kinds |-> FALSE]
    /\ prevResolved = [k \in Kinds |-> Idle]
    /\ log = [k \in Kinds |-> <<>>]
    /\ everPoured = [k \in Kinds |-> FALSE]
    /\ resolvedAt = [k \in Kinds |-> 0]
    /\ trackedAt = [k \in Kinds |-> 0]
    /\ lastOp = NoOp

Init == InitFor({"K1"}, {"X"})

\* ------------------------------------------------------------- actions
\* what only add_input_action and the systems' signatures decide
setup == <<registered, attached>>

\* variant: the start of a tick also empties the drains
EventUpdateClearsDrain ==
    /\ tick < MaxTicks
    /\ \A k \in registered : pc[k] = "done"
    /\ tick' = tick + 1
    /\ pc' = [k \in Kinds |-> IF k \in registered THEN "resolve" ELSE pc[k]]
    /\ events' = [k \in Kinds |->
                    IF k \in registered THEN Update(events[k]) ELSE events[k]]
    /\ drain' = [k \in Kinds |-> None]
    /\ lastPour' = [k \in Kinds |-> None]
    /\ replaced' = [k \in Kinds |-> FALSE]
    /\ lastOp' = Op("update", "-", "-")
    /\ UNCHANGED <<setup, state, local, cursor, prevResolved, log,
                   everPoured, resolvedAt, trackedAt>>

\* First schedule of a frame: event_update_system, then PreUpdate is due
EventUpdate ==
    /\ tick < MaxTicks
    /\ \A k \in registered : pc[k] = "done"
    /\ tick' = tick + 1
    /\ pc' = [k \in Kinds |-> IF k \in registered THEN "resolve" ELSE pc[k]]
    /\ events' = [k \in Kinds |->
                    IF k \in registered THEN Update(events[k]) ELSE events[k]]
    /\ lastOp' = Op("update", "-", "-")
    /\ UNCHANGED <<setup, drain, state, local, cursor, lastPour, replaced,
                   prevResolved, log, everPoured, resolvedAt, trackedAt>>

\* variant: pour writes the State as well as the drain
PourWritesState(k, v) ==
    /\ tick >= 1
    /\ drain' = [drain EXCEPT ![k] = Replace(@, v)]
    /\ state' = [state EXCEPT ![k] = Active(v)]
    /\ lastPour' = [lastPour EXCEPT ![k] = Some(v)]
    /\ replaced' = [replaced EXCEPT ![k] = lastPour[k] \notin {None, Some(v)}]
    /\ everPoured' = [everPoured EXCEPT ![k] = TRUE]
    /\ lastOp' = Op("pour", k, "-")
    /\ UNCHANGED <<setup, tick, pc, local, events, cursor, prevResolved,
                   log, resolvedAt, trackedAt>>

\* InputActionDrain::pour
Pour(k, v) ==
    /\ tick >= 1
    /\ drain' = [drain EXCEPT ![k] = Replace(@, v)]
    /\ lastPour' = [lastPour EXCEPT ![k] = Some(v)]
    /\ replaced' = [replaced EXCEPT ![k] = lastPour[k] \notin {None, Some(v)}]
    /\ everPoured' = [everPoured EXCEPT ![k] = TRUE]
    /\ lastOp' = Op("pour", k, "-")
    /\ UNCHANGED <<setup, tick, pc, state, local, events, cursor,
                   prevResolved, log, resolvedAt, trackedAt>>

\* variant: an empty drain leaves State as it was
ResolveSticky(k) ==
    /\ pc[k] = "resolve"
    /\ state' = [state EXCEPT ![k] =
                    IF drain[k] = None THEN @ ELSE ResolveState(drain[k])]
    /\ drain' = [drain EXCEPT ![k] = Take(@)]
    /\ pc' = [pc EXCEPT ![k] = "track"]
    /\ lastPour' = [lastPour EXCEPT ![k] = None]
    /\ replaced' = [replaced EXCEPT ![k] = FALSE]
    /\ resolvedAt' = [resolvedAt EXCEPT ![k] = tick]
    /\ lastOp' = [Op("resolve", k, "-") EXCEPT
                    !.ret = lastPour[k], !.flag = replaced[k]]
    /\ UNCHANGED <<setup, tick, local, events, cursor, log, everPoured,
                   prevResolved, trackedAt>>

\* variant: one drain shared by every kind instead of one per kind
ResolveSharedDrain(k) ==
    /\ pc[k] = "resolve"
    /\ state' = [state EXCEPT ![k] = ResolveState(drain[k])]
    /\ drain' = [j \in Kinds |-> Take(drain[j])]
    /\ pc' = [pc EXCEPT ![k] = "track"]
    /\ lastPour' = [lastPour EXCEPT ![k] = None]
    /\ replaced' = [replaced EXCEPT ![k] = FALSE]
    /\ resolvedAt' = [resolvedAt EXCEPT ![k] = tick]
    /\ lastOp' = [Op("resolve", k, "-") EXCEPT
                    !.ret = lastPour[k], !.flag = replaced[k]]
    /\ UNCHANGED <<setup, tick, local, events, cursor, log, everPoured,
                   prevResolved, trackedAt>>

\* update_input_action_state
Resolve(k) ==
    /\ pc[k] = "resolve"
    /\ state' = [state EXCEPT ![k] = ResolveState(drain[k])]
    /\ drain' = [drain EXCEPT ![k] = Take(@)]
    /\ pc' = [pc EXCEPT ![k] = "track"]
    /\ lastPour' = [lastPour EXCEPT ![k] = None]
    /\ replaced' = [replaced EXCEPT ![k] = FALSE]
    /\ resolvedAt' = [resolvedAt EXCEPT ![k] = tick]
    /\ lastOp' = [Op("resolve", k, "-") EXCEPT
                    !.ret = lastPour[k], !.flag = replaced[k]]
    /\ UNCHANGED <<setup, tick, local, events, cursor, log, everPoured,
                   prevResolved, trackedAt>>

\* history entries: the event, the tick it was sent in, its event id
Stamp(evs, t, n) ==
    [i \in 1..Len(evs) |-> [event |-> evs[i], tick |-> t, id |-> n + i - 1]]

\* variant: the pair is not chained, track may run before resolve
TrackUnchained(k) ==
    /\ pc[k] \in {"resolve", "track"}
    /\ LET sent == Transition(local[k], AsOption(state[k]))
       IN /\ events' = [events EXCEPT ![k] = Send(@, sent)]
          /\ log' = [log EXCEPT ![k] = @ \o Stamp(sent, tick, Len(@))]
    /\ local' = [local EXCEPT ![k] = NextLocal(@, AsOption(state[k]))]
    /\ pc' = [pc EXCEPT ![k] = IF @ = "track" THEN "done" ELSE "resolve"]
    /\ prevResolved' = [prevResolved EXCEPT ![k] = state[k]]
    /\ trackedAt' = [trackedAt EXCEPT ![k] = tick]
    /\ lastOp' = Op("track", k, "-")
    /\ UNCHANGED <<setup, tick, drain, state, cursor, lastPour, replaced,
                   everPoured, resolvedAt>>

\* write_input_action_events
Track(k) ==
    /\ pc[k] = "track"
    /\ LET sent == Transition(local[k], AsOption(state[k]))
       IN /\ events' = [events EXCEPT ![k] = Send(@, sent)]
          /\ log' = [log EXCEPT ![k] = @ \o Stamp(sent, tick, Len(@))]
    /\ local' = [local EXCEPT ![k] = NextLocal(@, AsOption(state[k]))]
    /\ pc' = [pc EXCEPT ![k] = "done"]
    /\ prevResolved' = [prevResolved EXCEPT ![k] = state[k]]
    /\ trackedAt' = [trackedAt EXCEPT ![k] = tick]
    /\ lastOp' = Op("track", k, "-")
    /\ UNCHANGED <<setup, tick, drain, state, cursor, lastPour, replaced,
                   everPoured, resolvedAt>>

\* what no reader operation touches
pipeline == <<tick, pc, drain, state, local, events, lastPour, replaced,
              prevResolved, log, everPoured, resolvedAt, trackedAt>>

\* variant: one cursor shared by the readers of a kind
ReadSharedCursor(k, r, n) ==
    /\ tick >= 1
    /\ LET items == Unread(events[k], cursor[k][r])
       IN /\ n <= Len(items)
          /\ cursor' = [cursor EXCEPT ![k] =
                          [x \in Readers |->
                              CursorAfter(events[k], Len(items), n)]]
          /\ lastOp' = [Op("read", k, r) EXCEPT !.ret = items, !.taken = n]
    /\ UNCHANGED <<setup, pipeline>>

\* InputActionReader::read, the caller taking n items of the iterator:
\* creating the iterator moves the cursor to event_count - unread, every
\* item taken moves it by one
Read(k, r, n) ==
    /\ tick >= 1
    /\ LET items == Unread(events[k], cursor[k][r])
       IN /\ n <= Len(items)
          /\ cursor' = [cursor EXCEPT ![k][r] =
                          CursorAfter(events[k], Len(items), n)]
          /\ lastOp' = [Op("read", k, r) EXCEPT !.ret = items, !.taken = n]
    /\ UNCHANGED <<setup, pipeline>>

\* InputActionReader::is_empty
IsEmpty(k, r) ==
    /\ tick >= 1
    /\ lastOp' = [Op("is_empty", k, r) EXCEPT
                    !.flag = (ReaderLen(events[k], cursor[k][r]) = 0)]
    /\ UNCHANGED <<setup, pipeline, cursor>>

\* variant: clear moves every reader of the kind
ClearAllReaders(k, r) ==
    /\ tick >= 1
    /\ cursor' = [cursor EXCEPT ![k] = [x \in Readers |-> ClearTo(events[k])]]
    /\ lastOp' = Op("clear", k, r)
    /\ UNCHANGED <<setup, pipeline>>

\* InputActionReader::clear
Clear(k, r) ==
    /\ tick >= 1
    /\ cursor' = [cursor EXCEPT ![k][r] = ClearTo(events[k])]
    /\ lastOp' = Op("clear", k, r)
    /\ UNCHANGED <<setup, pipeline>>

\* variant: the helper does not clear, the cursor stops where any stopped
ConditionNoClear(c, k, r) ==
    /\ tick >= 1
    /\ LET items == Unread(events[k], cursor[k][r])
           first == FirstMatch(items, Conditions[c])
           taken == IF first = 0 THEN Len(items) ELSE first
       IN /\ lastOp' = [Op(c, k, r) EXCEPT !.flag = (first # 0), !.taken = first]
          /\ cursor' = [cursor EXCEPT ![k][r] =
                          CursorAfter(events[k], Len(items), taken)]
    /\ UNCHANGED <<setup, pipeline>>

\* conditions::input_action_started / _updated / _stopped, named by c:
\* read().any(..) takes items up to the first match, then clear()
Condition(c, k, r) ==
    /\ tick >= 1
    /\ LET items == Unread(events[k], cursor[k][r])
           first == FirstMatch(items, Conditions[c])
       IN lastOp' = [Op(c, k, r) EXCEPT !.flag = (first # 0), !.taken = first]
    /\ cursor' = [cursor EXCEPT ![k][r] = ClearTo(events[k])]
    /\ UNCHANGED <<setup, pipeline>>

\* InputActionState::is_active, and conditions::input_action_active
QueryIsActive(k) ==
    /\ tick >= 1
    /\ lastOp' = [Op("is_active", k, "-") EXCEPT !.flag = IsActive(state[k])]
    /\ UNCHANGED <<setup, pipeline, cursor>>

\* InputActionState::state
QueryState(k) ==
    /\ tick >= 1
    /\ lastOp' = [Op("state", k, "-") EXCEPT !.ret = AsOption(state[k])]
    /\ UNCHANGED <<setup, pipeline, cursor>>

Next ==
    \/ EventUpdate
    \/ \E k \in registered, v \in Values : Pour(k, v)
    \/ \E k \in registered : Resolve(k)
    \/ \E k \in registered : Track(k)
    \/ \E k \in registered, r \in attached :
          \E n \in 0..Len(Unread(events[k], cursor[k][r])) : Read(k, r, n)
    \/ \E k \in registered, r \in attached : IsEmpty(k, r)
    \/ \E k \in registered, r \in attached : Clear(k, r)
    \/ \E c \in DOMAIN Conditions, k \in registered, r \in attached :
          Condition(c, k, r)
    \/ \E k \in registered : QueryIsActive(k)
    \/ \E k \in registered : QueryState(k)

Spec == Init /\ [][Next]_vars

\* the pipeline and the operations that move a cursor
NextCursors ==
    \/ EventUpdate
    \/ \E k \in registered, v \in Values : Pour(k, v)
    \/ \E k \in registered : Resolve(k)
    \/ \E k \in registered : Track(k)
    \/ \E k \in registered, r \in attached :
          \E n \in 0..Len(Unread(events[k], cursor[k][r])) : Read(k, r, n)
    \/ \E k \in registered, r \in attached : Clear(k, r)

\* one kind read by two readers
InitReaders == InitFor({"K1"}, {"X", "Y"})

SpecReaders == InitReaders /\ [][NextCursors]_vars

\* two kinds, one reader each
InitKinds == InitFor({"K1", "K2"}, {"X"})

\* the value each kind's producer pours, different for the two kinds
PouredBy == [K1 |-> 1, K2 |-> 2]

NextKinds ==
    \/ EventUpdate
    \/ \E k \in registered : Pour(k, PouredBy[k])
    \/ \E k \in registered : Resolve(k)
    \/ \E k \in registered : Track(k)
    \/ \E k \in registered, r \in attached :
          \E n \in 0..Len(Unread(events[k], cursor[k][r])) : Read(k, r, n)
    \/ \E k \in registered, r \in attached : Clear(k, r)

SpecKinds == InitKinds /\ [][NextKinds]_vars

\* the two systems run outside the chained once-per-tick schedule: any
\* number of times in a tick and in any order. pc records which of the two
\* ran last for the kind; the history kept is cut at MaxLog events.
EventUpdateAnytime ==
    /\ tick < MaxTicks
    /\ tick' = tick + 1
    /\ events' = [k \in Kinds |->
                    IF k \in registered THEN Update(events[k]) ELSE events[k]]
    /\ lastOp' = Op("update", "-", "-")
    /\ UNCHANGED <<setup, pc, drain, state, local, cursor, lastPour, replaced,
                   prevResolved, log, everPoured, resolvedAt, trackedAt>>

\* variant: an empty drain leaves State as it was
ResolveAnytimeSticky(k) ==
    /\ tick >= 1
    /\ state' = [state EXCEPT ![k] =
                    IF drain[k] = None THEN @ ELSE ResolveState(drain[k])]
    /\ drain' = [drain EXCEPT ![k] = Take(@)]
    /\ pc' = [pc EXCEPT ![k] = "track"]
    /\ lastPour' = [lastPour EXCEPT ![k] = None]
    /\ replaced' = [replaced EXCEPT ![k] = FALSE]
    /\ resolvedAt' = [resolvedAt EXCEPT ![k] = tick]
    /\ lastOp' = [Op("resolve", k, "-") EXCEPT
                    !.ret = lastPour[k], !.flag = IsActive(state[k])]
    /\ UNCHANGED <<setup, tick, local, events, cursor, log, everPoured,
                   prevResolved, trackedAt>>

\* update_input_action_state, run whenever the host runs it; the step
\* records the pour it consumed (ret) and whether State was Active (flag)
ResolveAnytime(k) ==
    /\ tick >= 1
    /\ state' = [state EXCEPT ![k] = ResolveState(drain[k])]
    /\ drain' = [drain EXCEPT ![k] = Take(@)]
    /\ pc' = [pc EXCEPT ![k] = "track"]
    /\ lastPour' = [lastPour EXCEPT ![k] = None]
    /\ replaced' = [replaced EXCEPT ![k] = FALSE]
    /\ resolvedAt' = [resolvedAt EXCEPT ![k] = tick]
    /\ lastOp' = [Op("resolve", k, "-") EXCEPT
                    !.ret = lastPour[k], !.flag = IsActive(state[k])]
    /\ UNCHANGED <<setup, tick, local, events, cursor, log, everPoured,
                   prevResolved, trackedAt>>

\* write_input_action_events, run whenever the host runs it
TrackAnytime(k) ==
    /\ tick >= 1
    /\ Len(log[k]) < MaxLog
    /\ LET sent == Transition(local[k], AsOption(state[k]))
       IN /\ events' = [events EXCEPT ![k] = Send(@, sent)]
          /\ log' = [log EXCEPT ![k] = @ \o Stamp(sent, tick, Len(@))]
    /\ local' = [local EXCEPT ![k] = NextLocal(@, AsOption(state[k]))]
    /\ pc' = [pc EXCEPT ![k] = "done"]
    /\ prevResolved' = [prevResolved EXCEPT ![k] = state[k]]
    /\ trackedAt' = [trackedAt EXCEPT ![k] = tick]
    /\ lastOp' = Op("track", k, "-")
    /\ UNCHANGED <<setup, tick, drain, state, cursor, lastPour, replaced,
                   everPoured, resolvedAt>>

NextMisuse ==
    \/ EventUpdateAnytime
    \/ \E k \in registered, v \in Values : Pour(k, v)
    \/ \E k \in registered : ResolveAnytime(k)
    \/ \E k \in registered : TrackAnytime(k)

SpecMisuse == Init /\ [][NextMisuse]_vars

\* =================================================== properties
\* the step taken is operation o on kind k
Did(o, k) == lastOp'.op = o /\ lastOp'.kind = k

\* the step taken is operation o of reader r of kind k
DidBy(o, k, r) == Did(o, k) /\ lastOp'.reader = r

\* the events the step appended to the queue of kind k
Appended(k) ==
    LET n == events'[k].event_count - events[k].event_count
        b == events'[k].events_b.events
    IN IF n = 0 THEN <<>> ELSE SubSeq(b, Len(b) - n + 1, Len(b))

\* the events of kind k sent during the current tick
ThisTick(k) ==
    LET InTick(e) == e.tick = tick IN SelectSeq(log[k], InTick)

\* the value carried by an event, as an option
Carried(e) == IF Len(e) = 2 THEN Some(e[2]) ELSE None

\* C1: last write wins. A resolve that follows pours v1..vn sets State to
\* Active(vn); no other step changes State, so it shows vn until the next
\* resolve; and an event that track appends carries no value but State's.
C1_LastWriteWins ==
    [][\A k \in Kinds :
          /\ (Did("resolve", k) /\ lastPour[k] # None)
                => state'[k] = Active(lastPour[k][1])
          /\ ~Did("resolve", k) => state'[k] = state[k]
          /\ Did("track", k)
                => \A i \in 1..Len(Appended(k)) :
                      Carried(Appended(k)[i]) \in {None, AsOption(state[k])}
      ]_vars

\* a pour of 2 that replaced a pour of another value was resolved to 2
C1_Witness ==
    \E k \in Kinds :
        /\ lastOp.op = "resolve" /\ lastOp.kind = k
        /\ lastOp.ret = Some(2) /\ lastOp.flag
        /\ state[k] = Active(2)

\* C2: resolve sets State to Active(v) when the drain holds v and to Idle
\* when it holds nothing, whatever State was before.
C2_ResolveFromDrain ==
    [][\A k \in Kinds : Did("resolve", k) =>
          /\ drain[k] = None => state'[k] = Idle
          /\ \A v \in Values : drain[k] = Some(v) => state'[k] = Active(v)
      ]_vars

\* an action that was Active and was not poured into became Idle
C2_Witness ==
    \E k \in Kinds :
        /\ lastOp.op = "resolve" /\ lastOp.kind = k
        /\ lastOp.ret = None
        /\ IsActive(prevResolved[k])
        /\ state[k] = Idle

\* C3: immediately after every resolve the drain holds no pending value.
C3_DrainEmptyAfterResolve ==
    \A k \in Kinds :
        (lastOp.op = "resolve" /\ lastOp.kind = k) => drain[k] = None

\* a resolve that consumed a pending value left the drain empty
C3_Witness ==
    \E k \in Kinds :
        /\ lastOp.op = "resolve" /\ lastOp.kind = k
        /\ lastOp.ret # None
        /\ drain[k] = None

\* C4: previous tick Idle, current tick Active(v): track appends exactly
\* one event, Started(v).
C4_IdleToActiveStarted ==
    [][\A k \in Kinds, v \in Values :
          (Did("track", k) /\ prevResolved[k] = Idle /\ state[k] = Active(v))
              => Appended(k) = <<Started(v)>>
      ]_vars

\* a track after an Idle tick has just sent Started(v) for State Active(v)
C4_Witness ==
    \E k \in Kinds, v \in Values :
        /\ lastOp.op = "track" /\ lastOp.kind = k
        /\ tick >= 2
        /\ state[k] = Active(v)
        /\ ThisTick(k) = <<[event |-> Started(v), tick |-> tick,
                            id |-> Len(log[k]) - 1]>>

\* C5: previous tick Active(v), current tick Idle: track appends exactly
\* one event, Stopped.
C5_ActiveToIdleStopped ==
    [][\A k \in Kinds :
          (Did("track", k) /\ IsActive(prevResolved[k]) /\ state[k] = Idle)
              => Appended(k) = <<Stopped>>
      ]_vars

\* a track has just sent Stopped for an Idle State
C5_Witness ==
    \E k \in Kinds :
        /\ lastOp.op = "track" /\ lastOp.kind = k
        /\ state[k] = Idle
        /\ Len(ThisTick(k)) = 1
        /\ ThisTick(k)[1].event = Stopped

\* C6: previous and current tick both Active: track appends nothing when
\* the values are equal, and exactly Updated(w) with the new value w when
\* they differ.
C6_ActiveToActive ==
    [][\A k \in Kinds, v \in Values, w \in Values :
          (Did("track", k) /\ prevResolved[k] = Active(v)
                           /\ state[k] = Active(w))
              => Appended(k) = IF v = w THEN <<>> ELSE <<Updated(w)>>
      ]_vars

\* a track has just sent Updated(2) after a tick that resolved to Active(1)
C6_Witness ==
    \E k \in Kinds :
        /\ lastOp.op = "track" /\ lastOp.kind = k
        /\ Len(log[k]) = 2
        /\ log[k][1] = [event |-> Started(1), tick |-> tick - 1, id |-> 0]
        /\ log[k][2] = [event |-> Updated(2), tick |-> tick, id |-> 1]
        /\ state[k] = Active(2)

\* C7: previous and current tick both Idle: track appends nothing, the
\* first tick included; a kind that was never poured into has no event.
C7_IdleToIdle ==
    [][\A k \in Kinds :
          /\ (Did("track", k) /\ prevResolved[k] = Idle /\ state[k] = Idle)
                => Appended(k) = <<>>
          /\ ~everPoured'[k]
                => /\ events'[k].event_count = 0
                   /\ Unread(events'[k], 0) = <<>>
      ]_vars

\* every tick has run and the kind, never poured into, is still silent
C7_Witness ==
    \E k \in registered :
        /\ lastOp.op = "track" /\ lastOp.kind = k
        /\ tick = MaxTicks
        /\ ~everPoured[k]
        /\ state[k] = Idle
        /\ events[k].event_count = 0

\* C8: after every track, event or not, the tracker's previous value is
\* the current State viewed as an option.
C8_PreviousFollowsState ==
    \A k \in Kinds :
        (lastOp.op = "track" /\ lastOp.kind = k)
            => local[k] = AsOption(state[k])

\* a track that sent nothing (equal values) still holds the current value
C8_Witness ==
    \E k \in Kinds, v \in Values :
        /\ lastOp.op = "track" /\ lastOp.kind = k
        /\ ThisTick(k) = <<>>
        /\ state[k] = Active(v)
        /\ local[k] = Some(v)

\* C9: per tick and kind at most one event is appended, and only track
\* appends: a step that grows the queue is a track that appends one event
\* in a tick that had none.
C9_OneEventPerTick ==
    [][\A k \in Kinds :
          (events'[k].event_count # events[k].event_count
              \/ Len(Unread(events'[k], 0)) > Len(Unread(events[k], 0)))
            => /\ Did("track", k)
               /\ Len(Appended(k)) = 1
               /\ ThisTick(k) = <<>>
      ]_vars

\* three ticks in a row have each sent their one event
C9_Witness ==
    \E k \in Kinds :
        /\ lastOp.op = "track" /\ lastOp.kind = k
        /\ Len(log[k]) = 3
        /\ \A i \in 1..3 : log[k][i].tick = i

\* the events of kind k a reader at cursor position c has not seen and
\* that are retained: sent at or after position c, in the current tick or
\* the one before, in the order they were sent
Unseen(k, c) ==
    LET Keep(e) == e.id >= c /\ e.tick >= tick - 1
        kept    == SelectSeq(log[k], Keep)
    IN [i \in 1..Len(kept) |-> kept[i].event]

\* s is what is left of t after dropping some of its first elements
IsSuffix(s, t) ==
    /\ Len(s) <= Len(t)
    /\ s = SubSeq(t, Len(t) - Len(s) + 1, Len(t))

\* the reader's previous operation was a read, and the step is its next
ReadAgain(k, r) ==
    /\ lastOp.op = "read" /\ lastOp.kind = k /\ lastOp.reader = r
    /\ DidBy("read", k, r)

WasBy(o, k, r) == lastOp.op = o /\ lastOp.kind = k /\ lastOp.reader = r

\* C11 as stated: once read has been called the reader has no unseen
\* event left, however many items the caller took.
C11_ReadConsumesAll ==
    \A k \in Kinds, r \in Readers :
        WasBy("read", k, r) => Unread(events[k], cursor[k][r]) = <<>>

\* C11 amended: after read the cursor is past the items the caller took
\* and no others; the items not taken are still unseen, so a caller that
\* stops after the first item leaves the rest for the next read.
C11_CursorFollowsTaken ==
    \A k \in Kinds, r \in Readers :
        WasBy("read", k, r)
            => /\ Unread(events[k], cursor[k][r])
                     = GetFrom(lastOp.ret, lastOp.taken)
               /\ Unseen(k, cursor[k][r]) = GetFrom(lastOp.ret, lastOp.taken)

\* a caller took the first of two items and the second is still unseen
C11_Witness ==
    \E k \in Kinds, r \in Readers :
        /\ WasBy("read", k, r)
        /\ Len(lastOp.ret) = 2 /\ lastOp.taken = 1
        /\ Unread(events[k], cursor[k][r]) = <<lastOp.ret[2]>>

\* the events of kind k with ids from..to-1, in the order they were sent
Sent(k, from, to) == [i \in 1..(to - from) |-> log[k][from + i].event]

\* C12: readers of one kind are independent. A read offers the reader
\* every retained event it has not passed, whatever the other readers
\* did; the items it takes lie at or after its old cursor, and the cursor
\* never moves back, so no event is taken twice; and the read leaves every
\* other reader's cursor, and what its next read returns, unchanged.
C12_ReadersIndependent ==
    [][\A k \in Kinds, r \in Readers :
          /\ cursor'[k][r] >= cursor[k][r]
          /\ DidBy("read", k, r)
                => /\ lastOp'.ret = Unseen(k, cursor[k][r])
                   /\ cursor'[k][r] - lastOp'.taken >= cursor[k][r]
                   /\ SubSeq(lastOp'.ret, 1, lastOp'.taken)
                         = Sent(k, cursor'[k][r] - lastOp'.taken,
                                cursor'[k][r])
                   /\ \A x \in Readers \ {r} :
                         /\ cursor'[k][x] = cursor[k][x]
                         /\ Unread(events'[k], cursor'[k][x])
                               = Unread(events[k], cursor[k][x])
      ]_vars

\* one reader is already past the only event, sent in this tick, and the
\* other reader has just been handed it and took it
C12_Witness ==
    \E k \in Kinds :
        /\ WasBy("read", k, "Y")
        /\ Len(log[k]) = 1 /\ log[k][1].tick = tick
        /\ lastOp.ret = <<log[k][1].event>> /\ lastOp.taken = 1
        /\ cursor[k]["X"] = 1 /\ cursor[k]["Y"] = 1

\* C13: clear moves the calling reader's cursor to the write position, so
\* that nothing sent before the clear is unseen by it any more; the queue
\* and every other reader's cursor and unseen events stay as they were.
C13_ClearOnlyOwnCursor ==
    [][\A k \in Kinds, r \in Readers :
          DidBy("clear", k, r)
            => /\ cursor'[k][r] = events[k].event_count
               /\ Unread(events'[k], cursor'[k][r]) = <<>>
               /\ Unseen(k, cursor[k][r])' = <<>>
               /\ events' = events
               /\ \A x \in Readers \ {r} :
                     /\ cursor'[k][x] = cursor[k][x]
                     /\ Unread(events'[k], cursor'[k][x])
                           = Unread(events[k], cursor[k][x])
      ]_vars

\* one reader has cleared past two events the other has still not seen
C13_Witness ==
    \E k \in Kinds :
        /\ WasBy("clear", k, "X")
        /\ cursor[k]["X"] = 2 /\ events[k].event_count = 2
        /\ Len(Unread(events[k], cursor[k]["Y"])) = 2

\* C14: is_empty is true exactly when a read that follows it at once
\* would return the empty sequence, and it moves no cursor.
C14_IsEmptyMatchesRead ==
    [][\A k \in Kinds, r \in Readers :
          DidBy("is_empty", k, r)
            => /\ lastOp'.flag = (Unread(events[k], cursor[k][r]) = <<>>)
               /\ lastOp'.flag = (Unread(events'[k], cursor'[k][r]) = <<>>)
               /\ cursor' = cursor
               /\ events' = events
      ]_vars

\* is_empty has answered false for an event that only the older buffer
\* still holds
C14_Witness ==
    \E k \in Kinds, r \in Readers :
        /\ WasBy("is_empty", k, r)
        /\ ~lastOp.flag
        /\ events[k].events_b.events = <<>>
        /\ Len(Unread(events[k], cursor[k][r])) = 1

\* C15: bounded retention. At any moment a read returns every event sent
\* in the current tick or the one before that the reader has not passed,
\* in order; older events are not promised (the witness shows one lost).
C15_RetainedTwoTicks ==
    \A k \in Kinds, r \in Readers :
        IsSuffix(Unseen(k, cursor[k][r]), Unread(events[k], cursor[k][r]))

\* a reader that never read finds, in tick 3, the events of ticks 2 and
\* 3 and no longer the event of tick 1
C15_Witness ==
    \E k \in Kinds, r \in Readers :
        /\ tick = 3 /\ cursor[k][r] = 0
        /\ Len(log[k]) = 3
        /\ \A i \in 1..3 : log[k][i].tick = i
        /\ Unread(events[k], cursor[k][r])
              = <<log[k][2].event, log[k][3].event>>

\* C16: a pour of v in tick 1 and of another value w in tick 2. A reader
\* whose cursor is still at the start when it reads after the track of
\* tick 2 is handed Started(v), Updated(w), in that order, be it a reader
\* that has been there since tick 1 or one that has never read.
C16_TwoTicksTogether ==
    [][\A k \in Kinds, r \in Readers, v \in Values, w \in Values :
          (/\ v # w
           /\ DidBy("read", k, r)
           /\ cursor[k][r] = 0
           /\ tick = 2 /\ pc[k] = "done"
           /\ log[k] = <<[event |-> Started(v), tick |-> 1, id |-> 0],
                         [event |-> Updated(w), tick |-> 2, id |-> 1]>>)
            => lastOp'.ret = <<Started(v), Updated(w)>>
      ]_vars

\* in tick 2 both readers have been handed the two events; the second
\* one has just taken them
C16_Witness ==
    \E k \in Kinds :
        /\ WasBy("read", k, "Y")
        /\ tick = 2
        /\ lastOp.ret = <<Started(1), Updated(2)>> /\ lastOp.taken = 2
        /\ cursor[k]["X"] = 2

\* C17: kind isolation. A pour, resolve, track, read or clear on one kind
\* leaves the drain, State, previous value, queue and reader cursors of
\* every other kind as they were.
C17_KindIsolation ==
    [][\A k \in Kinds :
          (lastOp'.kind = k
             /\ lastOp'.op \in {"pour", "resolve", "track", "read", "clear"})
            => \A j \in Kinds \ {k} :
                  /\ drain'[j] = drain[j]
                  /\ state'[j] = state[j]
                  /\ local'[j] = local[j]
                  /\ events'[j] = events[j]
                  /\ cursor'[j] = cursor[j]
      ]_vars

\* one kind has just been resolved to Active while the other, with an
\* event in its queue, is Idle with a pour of its own still pending
C17_Witness ==
    /\ lastOp.op = "resolve" /\ lastOp.kind = "K1"
    /\ state["K1"] = Active(1) /\ drain["K1"] = None
    /\ drain["K2"] = Some(2) /\ state["K2"] = Idle
    /\ events["K2"].event_count >= 1

\* C18: State is changed only by resolve. Every other step (pour, track,
\* is_active, state, read, is_empty, clear, a condition, the queue update)
\* leaves State as it was, and is_active and state answer from State, so
\* between two consecutive resolves they return the same answer whatever
\* was poured in between.
C18_OnlyResolveWritesState ==
    [][\A k \in Kinds :
          /\ ~Did("resolve", k) => state'[k] = state[k]
          /\ Did("is_active", k) => lastOp'.flag = IsActive(state'[k])
          /\ Did("state", k) => lastOp'.ret = AsOption(state'[k])
      ]_vars

\* state() still answers with the resolved value while a pour of another
\* value is waiting in the drain
C18_Witness ==
    /\ lastOp.op = "state" /\ lastOp.kind = "K1"
    /\ lastOp.ret = Some(1)
    /\ drain["K1"] = Some(2)

\* C19: in every tick, for each registered kind, resolve runs exactly once
\* and has completed before track runs exactly once. A resolve is the
\* kind's first of its tick, a track is the kind's first of its tick and
\* follows the tick's resolve, so the State it compares is the one resolved
\* in the same tick; and a tick does not end before both have run.
C19_ResolveThenTrackOncePerTick ==
    [][\A k \in registered :
          /\ Did("resolve", k) => resolvedAt[k] < tick /\ trackedAt[k] < tick
          /\ Did("track", k) =>
                /\ trackedAt[k] < tick
                /\ resolvedAt[k] = tick
                /\ state'[k] = state[k]
          /\ (tick' # tick /\ tick >= 1) =>
                resolvedAt[k] = tick /\ trackedAt[k] = tick
      ]_vars

\* the track of the second tick has run after that tick's resolve, on the
\* resolved State, while a later pour is already waiting in the drain
C19_Witness ==
    /\ lastOp.op = "track" /\ lastOp.kind = "K1"
    /\ tick = 2 /\ resolvedAt["K1"] = 2 /\ trackedAt["K1"] = 2
    /\ state["K1"] = Active(1) /\ local["K1"] = Some(1)
    /\ drain["K1"] = Some(2)

\* C20: input_action_started (resp. _updated, _stopped) returns true if
\* and only if the events the reader has not seen contain at least one
\* Started (resp. Updated, Stopped), at whatever position.
C20_ConditionIffUnseenHas ==
    [][\A c \in DOMAIN Conditions, k \in Kinds, r \in Readers :
          DidBy(c, k, r) =>
            LET unseen == Unseen(k, cursor[k][r])
            IN lastOp'.flag =
                 (\E i \in 1..Len(unseen) : unseen[i][1] = Conditions[c])
      ]_vars

\* input_action_stopped answered true on a Stopped that was the second of
\* the reader's unseen events
C20_Witness ==
    /\ lastOp.op = "input_action_stopped" /\ lastOp.kind = "K1"
    /\ lastOp.flag /\ lastOp.taken = 2

\* C21: after a call of input_action_started, _updated or _stopped the
\* reader it used has passed every event emitted so far: nothing is left
\* for read, is_empty is true, whatever the helper answered and wherever
\* the match was. No step moves a cursor back, so an event that made the
\* helper answer true is never offered to the same reader again.
C21_ConditionLeavesNothing ==
    [][\A k \in Kinds, r \in Readers :
          /\ cursor'[k][r] >= cursor[k][r]
          /\ \A c \in DOMAIN Conditions :
                DidBy(c, k, r) =>
                  /\ cursor'[k][r] = Len(log'[k])
                  /\ Unread(events'[k], cursor'[k][r]) = <<>>
                  /\ ReaderLen(events'[k], cursor'[k][r]) = 0
                  /\ Unseen(k, cursor'[k][r]) = <<>>
      ]_vars

\* input_action_started answered true on the first of two retained events
\* and the reader is nevertheless past the second one as well
C21_Witness ==
    /\ lastOp.op = "input_action_started" /\ lastOp.kind = "K1"
    /\ lastOp.flag /\ lastOp.taken = 1
    /\ tick = 2 /\ Len(log["K1"]) = 2
    /\ log["K1"][1].event[1] = "Started"
    /\ cursor["K1"]["X"] = 2

\* C22: well-formed event stream. In the sequence of all events emitted
\* for a kind, the first is Started; Started and Stopped strictly alternate
\* (the event after a Stopped is a Started, and a Started follows nothing
\* but a Stopped); every Updated has a Started before it with no Stopped in
\* between; and two events next to each other that both carry a value
\* carry different values.
C22_WellFormedStream ==
    \A k \in Kinds :
        LET es == [i \in 1..Len(log[k]) |-> log[k][i].event]
        IN /\ es # <<>> => es[1][1] = "Started"
           /\ \A i \in 1..(Len(es) - 1) :
                 /\ (es[i][1] = "Stopped") <=> (es[i + 1][1] = "Started")
                 /\ (Len(es[i]) = 2 /\ Len(es[i + 1]) = 2)
                       => es[i][2] # es[i + 1][2]
           /\ \A i \in 1..Len(es) :
                 es[i][1] = "Updated" =>
                   \E j \in 1..(i - 1) :
                      /\ es[j][1] = "Started"
                      /\ \A m \in j..i : es[m][1] # "Stopped"

\* a stream with all three statuses: Started(1), Updated(2), Stopped
C22_Witness ==
    /\ Len(log["K1"]) = 3
    /\ log["K1"][1].event = Started(1)
    /\ log["K1"][2].event = Updated(2)
    /\ log["K1"][3].event = Stopped

\* C23: events agree with State. At the end of a tick, after resolve and
\* then track, State is Active(v) if and only if the last event ever
\* emitted for the kind is Started(v) or Updated(v), and State is Idle if
\* and only if no event was emitted yet or the last one is Stopped.
C23_EventsAgreeWithState ==
    \A k \in registered :
        pc[k] = "done" =>
          LET n    == Len(log[k])
              last == IF n = 0 THEN Stopped ELSE log[k][n].event
          IN /\ \A v \in Values :
                   state[k] = Active(v) <=>
                     (n > 0 /\ last \in {Started(v), Updated(v)})
             /\ state[k] = Idle <=> (n = 0 \/ last = Stopped)

\* the third tick has ended with State Active(2) and no event of its own:
\* the last event is still the Updated(2) of the second tick
C23_Witness ==
    /\ tick = 3 /\ pc["K1"] = "done" /\ trackedAt["K1"] = 3
    /\ state["K1"] = Active(2)
    /\ Len(log["K1"]) = 2
    /\ log["K1"][2].event = Updated(2) /\ log["K1"][2].tick = 2

\* C24: a late pour is reported one tick late, not lost. A pour that runs
\* after the resolve of its tick changes neither State nor the queue; the
\* track of that tick sends only what State says; the poured value stays
\* in the drain through every step that is not a pour or a resolve of the
\* kind, the start of the next tick included; and the next resolve makes
\* State Active of the value then pending, which is the last one poured.
C24_LatePourNextTick ==
    [][\A k \in registered :
          /\ (Did("pour", k) /\ resolvedAt[k] = tick) =>
                /\ state'[k] = state[k]
                /\ events'[k] = events[k]
                /\ log'[k] = log[k]
                /\ drain'[k] # None /\ drain'[k] = lastPour'[k]
          /\ Did("track", k) =>
                \A i \in 1..Len(Appended(k)) :
                    Carried(Appended(k)[i]) \in {None, AsOption(state[k])}
          /\ (~Did("pour", k) /\ ~Did("resolve", k)) => drain'[k] = drain[k]
          /\ (Did("resolve", k) /\ drain[k] # None) =>
                /\ drain[k] = lastPour[k]
                /\ state'[k] = Active(drain[k][1])
                /\ resolvedAt[k] < tick
      ]_vars

\* the second tick starts with the 2 poured late in the first tick still
\* in the drain, while State and the only event so far say 1
C24_Witness ==
    /\ lastOp.op = "update" /\ tick = 2
    /\ drain["K1"] = Some(2)
    /\ state["K1"] = Active(1)
    /\ Len(log["K1"]) = 1 /\ log["K1"][1].event = Started(1)

\* the step is a track of kind k that directly follows a resolve of k that
\* consumed no pour and found State Active
TrackAfterEmptyResolve(k) ==
    /\ Did("track", k)
    /\ lastOp.op = "resolve" /\ lastOp.kind = k
    /\ lastOp.ret = None /\ lastOp.flag

\* a track of kind k with no resolve since the kind's previous track
\* appends no event and leaves the previous value as it was; a resolve
\* with no pour since the kind's previous resolve makes an Active State
\* Idle
RepeatedSystem(k) ==
    /\ (Did("track", k) /\ pc[k] = "done" /\ trackedAt[k] >= 1) =>
          Appended(k) = <<>> /\ local'[k] = local[k]
    /\ (Did("resolve", k) /\ resolvedAt[k] >= 1 /\ lastPour[k] = None
           /\ IsActive(state[k])) =>
          state'[k] = Idle

\* C25 as stated: track is idempotent on an unchanged State, a second
\* resolve with no pour in between turns an Active State into Idle, and
\* the track that follows it emits Stopped.
C25_SecondResolveStops ==
    [][\A k \in registered :
          /\ RepeatedSystem(k)
          /\ TrackAfterEmptyResolve(k) => Appended(k) = <<Stopped>>
      ]_vars

\* C25, amended: track is idempotent on an unchanged State, a second
\* resolve with no pour in between turns an Active State into Idle, and
\* the track that follows it emits Stopped when its previous value is a
\* value, and nothing when its previous value is None, that is when no
\* track ran while State was Active; either way the previous value is None
\* afterwards.
C25_SecondResolveStopsIfTracked ==
    [][\A k \in registered :
          /\ RepeatedSystem(k)
          /\ TrackAfterEmptyResolve(k) =>
                /\ state[k] = Idle
                /\ Appended(k) = IF local[k] # None THEN <<Stopped>> ELSE <<>>
                /\ local'[k] = None
      ]_vars

\* a value was poured and resolved, a second resolve made State Idle
\* before any track ran, and the track after it has sent nothing: the
\* history of the kind is empty
C25_Witness ==
    /\ lastOp.op = "track" /\ lastOp.kind = "K1"
    /\ everPoured["K1"] /\ drain["K1"] = None
    /\ state["K1"] = Idle /\ local["K1"] = None
    /\ log["K1"] = <<>>

====
